---- MODULE Spec2Model ----
(***************************************************************************)
(* State-machine model of backend/main.py of StockGPT:                     *)
(*   - get_stock_index_data: the quote resolver with its process-wide      *)
(*     cache (index_data_cache) and its fallback chain                     *)
(*     cache -> history provider -> info provider -> mock value;           *)
(*   - generate_stream: the relay of an LLM token stream to server-sent    *)
(*     events, and chat, the endpoint that builds its message list;        *)
(*   - the brokerage paths: get_index_data_from_zerodha, /api/indexes,     *)
(*     /api/zerodha/holdings, /watchlist, /portfolio, /api/stocks/ticker   *)
(*     and /api/stocks/{symbol}.                                           *)
(*                                                                         *)
(* Units.  Wall-clock time is counted in ticks of half a second, so that   *)
(* time.sleep(0.5) is one tick and cache_ttl (30 s) is 2 * cache_ttl       *)
(* ticks.  Prices delivered by the providers are integers in thousandths   *)
(* of a currency unit; every number of a returned Quote is an integer in   *)
(* hundredths (of a currency unit, or of a percent), which is what         *)
(* round(x, 2) produces.  Provider prices are multiples of 125             *)
(* thousandths (eighths of a unit): they are exact binary floats, so       *)
(* Python's round(x, 2) on them is exact round-half-to-even.               *)
(***************************************************************************)
EXTENDS Integers, Sequences, FiniteSets, TLC

VARIABLES
    now,               \* time.time(), in ticks of 0.5 s
    index_data_cache,  \* main.py:137, cache_key -> <<payload, timestamp>>
    call,              \* per thread: position and locals of get_stock_index_data
    last,              \* history variable: per cache key, the last finished call
    ncalls,            \* history variable: the number of calls started
    stream,            \* what the LLM stream has delivered to generate_stream
    gen,               \* generate_stream: position of the generator ("none"
                       \* before chat has created it)
    events,            \* generate_stream: the events yielded so far
    client,            \* main.py:55, the LLM client is configured (not None)
    chat,              \* the /api/chat request served, and its response
    kite,              \* main.py:61-72, the brokerage client is configured
    broker             \* the brokerage request served, and its response

vars == <<now, index_data_cache, call, last, ncalls, stream, gen, events,
          client, chat, kite, broker>>

resolverVars == <<now, index_data_cache, call, last, ncalls>>
streamVars == <<stream, gen, events>>
chatVars == <<client, chat>>
brokerVars == <<kite, broker>>

----------------------------------------------------------------------------
(* Bounds of the model *)

\* Idle time passes only up to MaxNow ticks.
MaxNow == 62

\* The number of get_stock_index_data calls of one behaviour.
MaxCalls == 2

\* The number of chunks an LLM stream delivers before it ends or fails.
MaxChunks == 3

\* The number of rows of the longest series the history provider returns.
MaxRows == 52

\* Threads that may run get_stock_index_data.
Threads == {1}

\* The (symbol, period, interval) triples requested.
Requests ==
    { <<"SENSEX", "5d", "1h">>,
      <<"TCS.NS", "1mo", "1d">> }

----------------------------------------------------------------------------
(* Program constants *)

cache_ttl == 30
max_retries == 3
chart_tail == 50

\* Idle time between two calls: just under the TTL, and exactly the TTL.
TickSteps == {2 * cache_ttl - 1, 2 * cache_ttl}

\* main.py:173, the interval variants of one attempt
Variants(interval) == <<interval, "1h", "1d">>

----------------------------------------------------------------------------
(* Pure helpers *)

Abs(x) == IF x < 0 THEN -x ELSE x

\* num / den rounded to the nearest integer, ties to even (Python's round).
RoundHalfEven(num, den) ==
    LET n == IF den < 0 THEN -num ELSE num
        d == Abs(den)
        q == n \div d
        r == n - q * d
    IN  IF 2 * r < d THEN q
        ELSE IF 2 * r > d THEN q + 1
        ELSE IF q % 2 = 0 THEN q ELSE q + 1

\* round(x, 2) of a price given in thousandths; the result is in hundredths.
round2(x) == RoundHalfEven(x, 10)

\* round(((current - prev) / prev * 100) if prev != 0 else 0, 2), main.py:219, 278
\* (prices in thousandths, result in hundredths of a percent).
change_percent(current_price, prev_close) ==
    IF prev_close # 0
    THEN RoundHalfEven((current_price - prev_close) * 10000, prev_close)
    ELSE 0

\* str.upper() on the symbols of Requests
upper(symbol) ==
    CASE symbol = "sensex" -> "SENSEX"
      [] symbol = "nifty50" -> "NIFTY50"
      [] OTHER -> symbol

\* main.py:144
cache_key(req) == req[1] \o "_" \o req[2] \o "_" \o req[3]

\* main.py:151-161
ticker_symbol(symbol) ==
    CASE upper(symbol) = "SENSEX" -> "^BSESN"
      [] upper(symbol) = "NIFTY50" -> "^NSEI"
      [] OTHER -> symbol

\* main.py:231-234 and 295-298, in whole currency units
mock_price(symbol) ==
    CASE upper(symbol) = "SENSEX" -> 75000
      [] upper(symbol) = "NIFTY50" -> 24000
      [] OTHER -> 50000

\* Faulty variant of tail: the first n elements of s (DataFrame.head).
head(s, n) ==
    IF Len(s) > n THEN SubSeq(s, 1, n) ELSE s

\* The last n elements of s (DataFrame.tail).
tail(s, n) ==
    IF Len(s) > n THEN SubSeq(s, Len(s) - n + 1, Len(s)) ELSE s

----------------------------------------------------------------------------
(* What the providers can answer *)

\* A row of the DataFrame ticker.history returns: its index and its Close.
Row(ts, close) == [ts |-> ts, Close |-> close]

\* A DataFrame.  closeOk = FALSE is a non-empty frame whose Close column
\* cannot be read as floats, so that main.py:250-282 raises.
Frame(rows, closeOk) == [kind |-> "frame", rows |-> rows, closeOk |-> closeOk]

NoHistory == [kind |-> "None", rows |-> <<>>, closeOk |-> TRUE]
EmptyFrame == Frame(<<>>, TRUE)

\* A series of MaxRows rising closes, longer than the chart.
LongFrame == Frame([i \in 1..MaxRows |-> Row(i, 100000 + 125 * i)], TRUE)

NonEmptyFrames ==
    { Frame(<<Row(1, 100125)>>, TRUE),
      Frame(<<Row(1, 100000), Row(2, 100375)>>, TRUE),
      Frame(<<Row(1, 0), Row(2, 5000), Row(3, 2500)>>, TRUE),
      Frame(<<Row(1, 100000), Row(2, 100375)>>, FALSE),
      LongFrame }

\* ticker.history(...) returns a frame or raises.
HistoryOutcomes ==
    {[kind |-> "raise", frame |-> NoHistory]}
    \cup {[kind |-> "return", frame |-> f] : f \in {EmptyFrame} \cup NonEmptyFrames}

\* A value of the info dict: the key is absent, holds None, or holds a number.
Absent == <<"absent", 0>>
NoneVal == <<"None", 0>>
Num(x) == <<"num", x>>

Dict(rmp, cp, pc) ==
    [kind |-> "dict", empty |-> FALSE,
     regularMarketPrice |-> rmp, currentPrice |-> cp, previousClose |-> pc]

NoInfo == [kind |-> "None", empty |-> TRUE,
           regularMarketPrice |-> Absent, currentPrice |-> Absent,
           previousClose |-> Absent]
EmptyDict == [NoInfo EXCEPT !.kind = "dict"]

InfoDicts ==
    { Dict(Num(100125), Absent, Num(100000)),
      Dict(Absent, Num(2500), Absent),
      Dict(Num(5000), Absent, Num(0)),
      Dict(NoneVal, NoneVal, Num(0)),
      Dict(Num(5000), Absent, NoneVal),
      Dict(Num(-1000), Absent, Num(2500)),
      Dict(Absent, Absent, Absent) }

\* ticker.info returns a dict (possibly empty) or raises; a raise is either
\* a rate-limit error ("429" / "Too Many Requests" in its text) or another.
InfoOutcomes ==
    {[kind |-> k, info |-> NoInfo] : k \in {"raise429", "raise"}}
    \cup {[kind |-> "return", info |-> d] : d \in {EmptyDict} \cup InfoDicts}

----------------------------------------------------------------------------
(* The Quotes get_stock_index_data builds *)

NoResult == [status |-> "none"]

\* main.py:258-262: the label of a chart point
time_str(interval, ts) ==
    IF interval \in {"5m", "15m", "1h"}
    THEN [fmt |-> "%H:%M", ts |-> ts]
    ELSE [fmt |-> "%m/%d", ts |-> ts]

\* main.py:254-271
chart_data(interval, rows) ==
    LET chart_history == tail(rows, chart_tail)
    IN  [i \in 1..Len(chart_history) |->
            [time |-> time_str(interval, chart_history[i].ts),
             value |-> round2(chart_history[i].Close)]]

\* main.py:250-282, for a non-empty frame whose Close is readable
SuccessQuote(req, frame) ==
    LET rows == frame.rows
        current_price == rows[Len(rows)].Close
        prev_close == IF Len(rows) > 1 THEN rows[1].Close ELSE current_price
        chart == chart_data(req[3], rows)
    IN  [symbol |-> upper(req[1]),
         current_price |-> round2(current_price),
         previous_close |-> round2(prev_close),
         change |-> round2(current_price - prev_close),
         change_percent |-> change_percent(current_price, prev_close),
         chart_data |-> chart,
         data_points |-> Len(chart),
         status |-> "success"]

\* Python truthiness of a value of the info dict
Truthy(v) == v[1] = "num" /\ v[2] # 0

\* main.py:210
InfoCurrentPrice(info) ==
    IF Truthy(info.regularMarketPrice) THEN info.regularMarketPrice
    ELSE IF Truthy(info.currentPrice) THEN info.currentPrice
    ELSE IF info.previousClose = Absent THEN Num(0)
    ELSE info.previousClose

\* main.py:211
InfoPrevClose(info) ==
    IF info.previousClose = Absent THEN InfoCurrentPrice(info)
    ELSE info.previousClose

\* Faulty variant of LimitedOk: any dict is used, without the tests of lines 208, 213.
LimitedOkLoose(info) ==
    /\ info.kind = "dict"
    /\ InfoCurrentPrice(info)[1] = "num"
    /\ InfoPrevClose(info)[1] = "num"

\* main.py:208-225: info is truthy, the price is positive, and building the
\* result does not raise (round(None, 2) raises TypeError, caught at line 226)
LimitedOk(info) ==
    /\ info.kind = "dict" /\ ~info.empty
    /\ Truthy(InfoCurrentPrice(info)) /\ InfoCurrentPrice(info)[2] > 0
    /\ InfoPrevClose(info)[1] = "num"

\* main.py:214-222
LimitedQuote(req, info) ==
    LET current_price == InfoCurrentPrice(info)[2]
        prev_close == InfoPrevClose(info)[2]
    IN  [symbol |-> upper(req[1]),
         current_price |-> round2(current_price),
         previous_close |-> round2(prev_close),
         change |-> round2(current_price - prev_close),
         change_percent |-> change_percent(current_price, prev_close),
         chart_data |-> <<>>,
         status |-> "limited_data"]

\* Faulty variant of MockQuote: the status tag is not one of the four tiers.
MockQuoteUntagged(req, status) ==
    [symbol |-> upper(req[1]),
     current_price |-> mock_price(req[1]) * 100,
     previous_close |-> mock_price(req[1]) * 99,
     change |-> mock_price(req[1]),
     change_percent |-> 100,
     chart_data |-> <<>>,
     status |-> "mock"]

\* main.py:231-244 (status mock_data) and 295-308 (status error_fallback):
\* mock_price, mock_price * 0.99, mock_price * 0.01 and 1.0, in hundredths
MockQuote(req, status) ==
    [symbol |-> upper(req[1]),
     current_price |-> mock_price(req[1]) * 100,
     previous_close |-> mock_price(req[1]) * 99,
     change |-> mock_price(req[1]),
     change_percent |-> 100,
     chart_data |-> <<>>,
     status |-> status]

----------------------------------------------------------------------------
(* get_stock_index_data, main.py:140-308 *)

NoReq == <<"", "", "">>

IdleCall ==
    [pc |-> "idle", req |-> NoReq, attempt |-> 0, vi |-> 1,
     history |-> NoHistory, info |-> NoInfo,
     log |-> <<>>, infoCalls |-> 0, waits |-> <<>>,
     result |-> NoResult, hit |-> FALSE, stored |-> -1,
     start |-> 0, cache0 |-> <<>>]

NonEmpty(h) == h.kind = "frame" /\ h.rows # <<>>

\* A time.sleep of the call: its length in ticks, what it follows ("start",
\* "raise429", "raise") and the retry attempt it was made in.
Wait(ticks, after, attempt) ==
    [ticks |-> ticks, after |-> after, attempt |-> attempt]

\* Faulty variant of Fresh: an entry exactly cache_ttl old still counts as fresh.
FreshInclusive(cached_time, t) == t - cached_time <= 2 * cache_ttl

\* Faulty variant of Fresh: the comparison is inverted.
FreshInverted(cached_time, t) == t - cached_time > 2 * cache_ttl

\* main.py:147: the entry is fresh
Fresh(cached_time, t) == t - cached_time < 2 * cache_ttl

\* Faulty variant of CachedData: the payload is re-tagged when served from the cache.
CachedDataRetagged(entry) == [entry[1] EXCEPT !.status = "cached"]

\* main.py:146-149: cached_data of the entry is returned
CachedData(entry) == entry[1]

\* main.py:145-147
CacheHit(cache, key, t) ==
    key \in DOMAIN cache /\ Fresh(cache[key][2], t)

\* Faulty variant of Store: an existing entry is kept (dict.setdefault).
StoreIfAbsent(cache, key, result, t) ==
    [k \in DOMAIN cache \cup {key} |->
        IF k \in DOMAIN cache THEN cache[k] ELSE <<result, t>>]

\* index_data_cache[cache_key] = (result, time.time())
Store(cache, key, result, t) ==
    [k \in DOMAIN cache \cup {key} |->
        IF k = key THEN <<result, t>> ELSE cache[k]]

\* main.py:143-149: the call starts and looks its key up in the cache; on a
\* hit it returns the stored payload.
CacheCheck(t, req) ==
    /\ call[t].pc = "idle"
    /\ ncalls < MaxCalls
    /\ ncalls' = ncalls + 1
    /\ LET key == cache_key(req)
           hit == CacheHit(index_data_cache, key, now)
       IN  call' = [call EXCEPT ![t] =
                [IdleCall EXCEPT
                    !.pc = IF hit THEN "done" ELSE "sleep",
                    !.req = req,
                    !.start = now,
                    !.cache0 = index_data_cache,
                    !.hit = hit,
                    !.stored = IF hit THEN index_data_cache[key][2] ELSE -1,
                    !.result = IF hit THEN CachedData(index_data_cache[key])
                              ELSE NoResult]]
    /\ UNCHANGED <<now, index_data_cache, last, streamVars, chatVars, brokerVars>>

\* main.py:164: time.sleep(0.5)
Sleep(t) ==
    /\ call[t].pc = "sleep"
    /\ now' = now + 1
    /\ call' = [call EXCEPT ![t].pc = "hist",
                            ![t].waits = Append(@, Wait(1, "start", 0))]
    /\ UNCHANGED <<index_data_cache, last, ncalls, streamVars, chatVars, brokerVars>>

\* Faulty variant of HistoryCall: a raising variant ends the attempt, as it
\* would if the exception reached the handler of the attempt loop.
HistoryCallRaiseEndsAttempt(t) ==
    /\ call[t].pc = "hist"
    /\ \E o \in HistoryOutcomes :
        LET c == call[t]
            intv == Variants(c.req[3])[c.vi]
            h == IF o.kind = "return" THEN o.frame ELSE c.history
            endInner == (o.kind = "return" /\ NonEmpty(o.frame)) \/ c.vi = 3
                            \/ o.kind # "return"
            endOuter == endInner /\ (NonEmpty(h) \/ c.attempt = max_retries - 1)
        IN  call' = [call EXCEPT
                ![t].history = h,
                ![t].log = Append(@, intv),
                ![t].vi = IF endInner THEN 1 ELSE c.vi + 1,
                ![t].attempt = IF endOuter THEN 0
                               ELSE IF endInner THEN c.attempt + 1
                               ELSE c.attempt,
                ![t].pc = IF ~endOuter THEN "hist"
                          ELSE IF NonEmpty(h) THEN "process"
                          ELSE "info"]
    /\ UNCHANGED <<now, index_data_cache, last, ncalls, streamVars, chatVars, brokerVars>>

\* main.py:171-191: one ticker.history call, with the control flow that
\* follows it.  The inner except (line 178) catches every Exception, so the
\* outer one (lines 185-189, with its sleep) is never entered.
HistoryCall(t) ==
    /\ call[t].pc = "hist"
    /\ \E o \in HistoryOutcomes :
        LET c == call[t]
            intv == Variants(c.req[3])[c.vi]
            h == IF o.kind = "return" THEN o.frame ELSE c.history
            endInner == (o.kind = "return" /\ NonEmpty(o.frame)) \/ c.vi = 3
            endOuter == endInner /\ (NonEmpty(h) \/ c.attempt = max_retries - 1)
        IN  call' = [call EXCEPT
                ![t].history = h,
                ![t].log = Append(@, intv),
                ![t].vi = IF endInner THEN 1 ELSE c.vi + 1,
                ![t].attempt = IF endOuter THEN 0
                               ELSE IF endInner THEN c.attempt + 1
                               ELSE c.attempt,
                ![t].pc = IF ~endOuter THEN "hist"
                          ELSE IF NonEmpty(h) THEN "process"
                          ELSE "info"]
    /\ UNCHANGED <<now, index_data_cache, last, ncalls, streamVars, chatVars, brokerVars>>

\* main.py:194-206: one ticker.info access, with the wait that follows a raise
InfoCall(t) ==
    /\ call[t].pc = "info"
    /\ \E o \in InfoOutcomes :
        LET c == call[t]
            info == IF o.kind = "return" THEN o.info ELSE c.info
            break == o.kind = "return" /\ ~o.info.empty
            wait == IF o.kind = "raise429" THEN 2 * 2 * (c.attempt + 1)
                    ELSE IF o.kind = "raise" /\ c.attempt < max_retries - 1 THEN 2
                    ELSE 0
            endLoop == break \/ c.attempt = max_retries - 1
        IN  /\ now' = now + wait
            /\ call' = [call EXCEPT
                    ![t].info = info,
                    ![t].infoCalls = @ + 1,
                    ![t].waits = IF wait > 0
                                 THEN Append(@, Wait(wait, o.kind, c.attempt))
                                 ELSE @,
                    ![t].attempt = IF endLoop THEN 0 ELSE c.attempt + 1,
                    ![t].pc = IF endLoop THEN "fallback" ELSE "info"]
    /\ UNCHANGED <<index_data_cache, last, ncalls, streamVars, chatVars, brokerVars>>

\* Faulty variant of Fallback: the mock_data Quote is returned without being
\* stored, as the error_fallback Quote is.
FallbackMockNotStored(t) ==
    /\ call[t].pc = "fallback"
    /\ LET c == call[t]
       IN  IF LimitedOk(c.info)
           THEN /\ index_data_cache' = Store(index_data_cache, cache_key(c.req),
                                             LimitedQuote(c.req, c.info), now)
                /\ call' = [call EXCEPT ![t].pc = "done",
                                        ![t].result = LimitedQuote(c.req, c.info),
                                        ![t].stored = now]
           ELSE /\ call' = [call EXCEPT ![t].pc = "done",
                                        ![t].result = MockQuote(c.req, "mock_data")]
                /\ UNCHANGED index_data_cache
    /\ UNCHANGED <<now, last, ncalls, streamVars, chatVars, brokerVars>>

\* main.py:208-246: the limited_data Quote from info, else the mock_data
\* Quote; either is stored in the cache and returned.
Fallback(t) ==
    /\ call[t].pc = "fallback"
    /\ LET c == call[t]
           result == IF LimitedOk(c.info)
                     THEN LimitedQuote(c.req, c.info)
                     ELSE MockQuote(c.req, "mock_data")
       IN  /\ index_data_cache' =
                Store(index_data_cache, cache_key(c.req), result, now)
           /\ call' = [call EXCEPT ![t].pc = "done",
                                   ![t].result = result,
                                   ![t].stored = now]
    /\ UNCHANGED <<now, last, ncalls, streamVars, chatVars, brokerVars>>

\* Faulty variant of ProcessHistory: a failure of the processing falls through to
\* the mock tier instead of the outer handler.
ProcessHistorySwallow(t) ==
    /\ call[t].pc = "process"
    /\ LET c == call[t]
           result == IF c.history.closeOk
                     THEN SuccessQuote(c.req, c.history)
                     ELSE MockQuote(c.req, "mock_data")
       IN  /\ index_data_cache' =
                Store(index_data_cache, cache_key(c.req), result, now)
           /\ call' = [call EXCEPT ![t].pc = "done",
                                   ![t].result = result,
                                   ![t].stored = now]
    /\ UNCHANGED <<now, last, ncalls, streamVars, chatVars, brokerVars>>

\* Faulty variant of ProcessHistory: the error_fallback Quote is cached like the
\* other tiers.
ProcessHistoryCachesFallback(t) ==
    /\ call[t].pc = "process"
    /\ LET c == call[t]
           result == IF c.history.closeOk
                     THEN SuccessQuote(c.req, c.history)
                     ELSE MockQuote(c.req, "error_fallback")
       IN  /\ index_data_cache' =
                Store(index_data_cache, cache_key(c.req), result, now)
           /\ call' = [call EXCEPT ![t].pc = "done",
                                   ![t].result = result,
                                   ![t].stored = now]
    /\ UNCHANGED <<now, last, ncalls, streamVars, chatVars, brokerVars>>

\* main.py:248-308: the success Quote from the series, stored and returned;
\* if processing the series raises, the exception is re-raised (line 290)
\* and the outer handler returns the error_fallback Quote, storing nothing.
ProcessHistory(t) ==
    /\ call[t].pc = "process"
    /\ LET c == call[t]
       IN  IF c.history.closeOk
           THEN LET result == SuccessQuote(c.req, c.history)
                IN  /\ index_data_cache' =
                         Store(index_data_cache, cache_key(c.req), result, now)
                    /\ call' = [call EXCEPT ![t].pc = "done",
                                            ![t].result = result,
                                            ![t].stored = now]
           ELSE /\ call' = [call EXCEPT
                        ![t].pc = "done",
                        ![t].result = MockQuote(c.req, "error_fallback")]
                /\ UNCHANGED index_data_cache
    /\ UNCHANGED <<now, last, ncalls, streamVars, chatVars, brokerVars>>

\* The call has returned; the thread is free for the next call.
Return(t) ==
    /\ call[t].pc = "done"
    /\ LET c == call[t]
           key == cache_key(c.req)
       IN  last' = [k \in DOMAIN last \cup {key} |->
                     IF k = key
                     THEN [result |-> c.result, start |-> c.start,
                           stored |-> c.stored]
                     ELSE last[k]]
    /\ call' = [call EXCEPT ![t] = IdleCall]
    /\ UNCHANGED <<now, index_data_cache, ncalls, streamVars, chatVars, brokerVars>>

\* Time passes between calls.
Tick(d) ==
    /\ \A t \in Threads : call[t].pc = "idle"
    /\ now + d <= MaxNow
    /\ now' = now + d
    /\ UNCHANGED <<index_data_cache, call, last, ncalls, streamVars, chatVars, brokerVars>>

----------------------------------------------------------------------------
(* generate_stream, main.py:1003-1026 *)

\* A chunk of the LLM stream: whether chunk.choices is non-empty, whether
\* its delta has a content attribute, and the content (None or a string).
Chunk(choices, hasContent, content) ==
    [choices |-> choices, hasContent |-> hasContent, content |-> content]

StrNone == <<"None", "">>
Str(x) == <<"str", x>>

Chunks ==
    { Chunk(FALSE, FALSE, StrNone),
      Chunk(TRUE, FALSE, StrNone),
      Chunk(TRUE, TRUE, StrNone),
      Chunk(TRUE, TRUE, Str("")),
      Chunk(TRUE, TRUE, Str("Buy")),
      Chunk(TRUE, TRUE, Str(" low")) }

\* str(e) of the exception the LLM client raises
ErrorMessages == {"Connection error.", "Rate limit reached"}

NoStream == [chunks |-> <<>>, end |-> "open", msg |-> ""]

\* Faulty variant of HasContent: the content is tested for truth, not against None.
HasContentTruthy(chunk) ==
    chunk.choices /\ chunk.hasContent /\ chunk.content \notin {StrNone, Str("")}

\* main.py:1015-1017: the chunk carries a content fragment
HasContent(chunk) ==
    chunk.choices /\ chunk.hasContent /\ chunk.content # StrNone

\* main.py:1019: yield the content event
YieldContent(evs, chunk) == Append(evs, [content |-> chunk.content[2]])

\* main.py:1021: yield the done event
YieldDone(evs) == Append(evs, [done |-> TRUE])

\* Faulty variant of YieldError: the exception is logged and nothing is yielded.
YieldErrorSwallowed(evs, error_msg) == evs

\* main.py:1022-1026: yield the error event
YieldError(evs, error_msg) == Append(evs, [error |-> error_msg])

\* main.py:1006-1012: client.chat.completions.create(..., stream=True) returns
StreamOpen ==
    /\ gen = "start"
    /\ gen' = "iterating"
    /\ UNCHANGED <<stream, events, resolverVars, chatVars, brokerVars>>

\* main.py:1006-1012 and 1022-1026: create raises; the error event is yielded
StreamOpenFails ==
    /\ gen = "start"
    /\ \E m \in ErrorMessages :
        /\ stream' = [stream EXCEPT !.end = "fail", !.msg = m]
        /\ events' = YieldError(events, m)
    /\ gen' = "finished"
    /\ UNCHANGED <<resolverVars, chatVars, brokerVars>>

\* main.py:1014-1019: the stream delivers a chunk
StreamChunk ==
    /\ gen = "iterating"
    /\ Len(stream.chunks) < MaxChunks
    /\ \E chunk \in Chunks :
        /\ stream' = [stream EXCEPT !.chunks = Append(@, chunk)]
        /\ events' = IF HasContent(chunk)
                      THEN YieldContent(events, chunk)
                      ELSE events
    /\ UNCHANGED <<gen, resolverVars, chatVars, brokerVars>>

\* main.py:1014 and 1021: the stream is exhausted
StreamExhausted ==
    /\ gen = "iterating"
    /\ stream' = [stream EXCEPT !.end = "exhausted"]
    /\ events' = YieldDone(events)
    /\ gen' = "finished"
    /\ UNCHANGED <<resolverVars, chatVars, brokerVars>>

\* main.py:1014 and 1022-1026: the stream raises while it is iterated
StreamFails ==
    /\ gen = "iterating"
    /\ \E m \in ErrorMessages :
        /\ stream' = [stream EXCEPT !.end = "fail", !.msg = m]
        /\ events' = YieldError(events, m)
    /\ gen' = "finished"
    /\ UNCHANGED <<resolverVars, chatVars, brokerVars>>

----------------------------------------------------------------------------
(* chat, main.py:1028-1094 *)

\* The number of history turns forwarded at most (the slice [-10:])
history_window == 10

\* The longest conversation_history a request carries.
MaxHistory == 15

\* Stands for the text of the persona prompt.
WARREN_BUFFETT_PROMPT == "WARREN_BUFFETT_PROMPT"

\* The value of a key a dict does not have.
Missing == "<missing>"

\* An element of conversation_history: a dict with or without the keys
\* "role" and "content", or a value that is not a dict.
Turn(role, content) == [kind |-> "dict", role |-> role, content |-> content]
NotADict == [kind |-> "str", role |-> Missing, content |-> Missing]

\* dict.get(key, default)
Get(d, key, default) == IF d[key] = Missing THEN default ELSE d[key]

Message(role, content) == [role |-> role, content |-> content]

\* Faulty variant of LastTurns: the slice [:n], the first n elements.
FirstTurns(history, n) ==
    SubSeq(history, 1, IF Len(history) > n THEN n ELSE Len(history))

\* main.py:1044: the slice conversation_history[-n:]
LastTurns(history, n) ==
    LET start == IF Len(history) > n THEN Len(history) - n ELSE 0
    IN  SubSeq(history, start + 1, Len(history))

\* main.py:1044-1048: msg.get raises for an element that is not a dict
BuildRaises(history) ==
    \E i \in DOMAIN LastTurns(history, history_window) :
        LastTurns(history, history_window)[i].kind # "dict"

\* main.py:1039-1054: the message list built for the LLM
BuildMessages(history, message) ==
    LET turns == LastTurns(history, history_window)
    IN  <<Message("system", WARREN_BUFFETT_PROMPT)>>
        \o [i \in 1..Len(turns) |->
                Message(Get(turns[i], "role", "user"), Get(turns[i], "content", ""))]
        \o <<Message("user", message)>>

\* The responses of the endpoint
NoResponse == [status |-> 0, detail |-> ""]
HTTPException(status_code, detail) == [status |-> status_code, detail |-> detail]
StreamingResponse == [status |-> 200, detail |-> ""]

\* main.py:1032-1036
ChatConfigError ==
    HTTPException(500,
        "OpenAI API key not configured. Please set OPENAI_API_KEY in your .env file")

\* main.py:1074-1094, for the AttributeError of msg.get on a str
ChatBuildError ==
    HTTPException(500, "Error processing chat: 'str' object has no attribute 'get'")

NoChat == [history |-> <<>>, message |-> "", messages |-> <<>>, response |-> NoResponse]

\* The histories requests carry: turn i has the text "m<i>"; the roles
\* alternate ("dialogue"), include client-supplied system turns ("system"),
\* lack keys ("sparse"), or the first element is not a dict ("malformed").
HistoryPatterns == {"dialogue", "system", "sparse", "malformed"}

HistoryOf(h, p) ==
    [i \in 1..h |->
        LET text == "m" \o ToString(i)
            role == IF i % 2 = 1 THEN "user" ELSE "assistant"
        IN  CASE p = "dialogue" -> Turn(role, text)
              [] p = "system" -> Turn(IF i % 4 = 0 THEN "system" ELSE role, text)
              [] p = "sparse" -> Turn(IF i % 3 = 0 THEN Missing ELSE role,
                                      IF i % 3 = 1 THEN Missing ELSE text)
              [] p = "malformed" -> IF i = 1 THEN NotADict ELSE Turn(role, text)]

NewMessages == {"Should I buy TCS?", ""}

\* Faulty variant of Chat: the client is not tested before the stream is set up.
ChatNoClientCheck ==
    /\ gen = "none"
    /\ chat.response = NoResponse
    /\ \E h \in 0..MaxHistory, p \in HistoryPatterns, message \in NewMessages :
        LET history == HistoryOf(h, p)
            request == [NoChat EXCEPT !.history = history, !.message = message]
        IN  IF BuildRaises(history)
            THEN /\ chat' = [request EXCEPT !.response = ChatBuildError]
                 /\ gen' = gen
            ELSE /\ chat' = [request EXCEPT
                        !.messages = BuildMessages(history, message),
                        !.response = StreamingResponse]
                 /\ gen' = "start"
    /\ UNCHANGED <<stream, events, client, resolverVars, brokerVars>>

\* main.py:1028-1094: POST /api/chat.  The generator is created and handed
\* to the StreamingResponse; the LLM is called only when the generator runs.
Chat ==
    /\ gen = "none"
    /\ chat.response = NoResponse
    /\ \E h \in 0..MaxHistory, p \in HistoryPatterns, message \in NewMessages :
        LET history == HistoryOf(h, p)
            request == [NoChat EXCEPT !.history = history, !.message = message]
        IN  IF ~client
            THEN /\ chat' = [request EXCEPT !.response = ChatConfigError]
                 /\ gen' = gen
            ELSE IF BuildRaises(history)
            THEN /\ chat' = [request EXCEPT !.response = ChatBuildError]
                 /\ gen' = gen
            ELSE /\ chat' = [request EXCEPT
                        !.messages = BuildMessages(history, message),
                        !.response = StreamingResponse]
                 /\ gen' = "start"
    /\ UNCHANGED <<stream, events, client, resolverVars, brokerVars>>

----------------------------------------------------------------------------
(* The brokerage paths, main.py:337-1001.  Prices the broker delivers are
   integers in thousandths, as the provider prices are; every number of a
   response is in hundredths. *)

\* No brokerage request has been served.
NoBroker == [endpoint |-> "none"]

\* A broker call that is not reached
NotCalled == [kind |-> "notcalled"]

\* dict.get(key, default) on a value that is Absent or Num(x)
Val(v, default) == IF v = Absent THEN default ELSE v[2]

\* The entry of one symbol in the dict kite.quote returns: last_price and
\* ohlc.close, each present or absent.
QuoteData(last_price, close) == [last_price |-> last_price, close |-> close]

QuoteDatas ==
    { QuoteData(Num(115000), Num(100000)),
      QuoteData(Num(95000), Num(0)),
      QuoteData(Num(102500), Absent),
      QuoteData(Absent, Num(102500)) }

\* kite.quote for one symbol: raises, returns a dict without the symbol, or
\* returns a dict with it.
QuoteRaises == [kind |-> "raise", data |-> QuoteData(Absent, Absent)]
QuoteLacks == [kind |-> "absent", data |-> QuoteData(Absent, Absent)]
QuoteHas(d) == [kind |-> "data", data |-> d]
QuoteOutcomes == {QuoteRaises, QuoteLacks} \cup {QuoteHas(d) : d \in QuoteDatas}

\* current_price and prev_close read from a quote entry, main.py:399-401,
\* 546-547, 611-612, 669-671, 793-794, 903-904
QuotePrices(d, default) ==
    LET current_price == Val(d.last_price, default)
    IN  [current_price |-> current_price, prev_close |-> Val(d.close, current_price)]

\* price, change and changePercent as every brokerage path computes them,
\* main.py:410-411 and 442-444, 548-554, 615-623, 706-708, 795-805, 905-906
QuoteNumbers(current_price, prev_close) ==
    [price |-> round2(current_price),
     change |-> round2(current_price - prev_close),
     changePercent |-> change_percent(current_price, prev_close)]

\* main.py:636-637, 738-739, 826-827, 889-890, 456-457
NotConfigured == HTTPException(400, "Zerodha Kite Connect not configured")

\* main.py:731-733, 819-821, 882-884, 999-1001
ProviderError(endpoint) == HTTPException(500, "Error fetching " \o endpoint)

----------------------------------------------------------------------------
(* get_index_data_from_zerodha and /api/indexes, main.py:337-510 *)

\* kite.historical_data returns a list of candles (their closes) or raises.
HistoricalRaises == [kind |-> "raise", candles |-> <<>>]
Historical(candles) == [kind |-> "return", candles |-> candles]

RecentOutcomes ==
    { HistoricalRaises,
      Historical(<<>>),
      Historical(<<100125>>),
      Historical(<<100000, 100375>>),
      Historical(<<0, 5000>>),
      Historical(<<5000, 0>>) }

YearOutcomes ==
    { HistoricalRaises,
      Historical(<<>>),
      Historical(<<100000, 100375>>) }

\* What get_index_data_from_zerodha returns: None or the price record.
NoPriceData ==
    [kind |-> "None", price |-> 0, change |-> 0, changePercent |-> 0, chartData |-> <<>>]

\* Faulty variant of IndexPrices: a failed recent history gives no price,
\* without the quote fallback.
IndexPricesNoFallback(recent, quote) ==
    LET none == [ok |-> FALSE, current_price |-> 0, prev_close |-> 0]
        n == Len(recent.candles)
    IN  IF recent.kind = "return" /\ n > 0
        THEN [ok |-> TRUE, current_price |-> recent.candles[n],
              prev_close |-> IF n > 1 THEN recent.candles[n - 1]
                             ELSE recent.candles[n]]
        ELSE none

\* main.py:369-408: the current and previous close, or no price (ok = FALSE)
\* when the function returns None at line 388 or 405.
IndexPrices(recent, quote) ==
    LET none == [ok |-> FALSE, current_price |-> 0, prev_close |-> 0]
        n == Len(recent.candles)
    IN  IF recent.kind = "return"
        THEN IF n > 0
             THEN [ok |-> TRUE, current_price |-> recent.candles[n],
                   prev_close |-> IF n > 1 THEN recent.candles[n - 1]
                                  ELSE recent.candles[n]]
             ELSE none
        ELSE IF quote.kind = "raise" THEN none
        ELSE IF quote.kind = "data"
             THEN [ok |-> TRUE] @@ QuotePrices(quote.data, 0)
             ELSE [ok |-> TRUE, current_price |-> 0, prev_close |-> 0]

\* main.py:413-439: the chart of the one-year history, empty when the call
\* raises (value only; date, open, high, low and volume are left out)
IndexChart(year) ==
    IF year.kind = "return"
    THEN [i \in 1..Len(year.candles) |-> round2(year.candles[i])]
    ELSE <<>>

\* The broker calls get_index_data_from_zerodha makes for given outcomes:
\* the quote only after the recent history raised, the one-year history
\* only once a non-zero price is known.
IndexCalls(recent, quote, year) ==
    LET p == IndexPrices(recent, quote)
    IN  [recent |-> recent,
         quote |-> IF recent.kind = "raise" THEN quote ELSE NotCalled,
         year |-> IF p.ok /\ p.current_price # 0 THEN year ELSE NotCalled]

\* Faulty variant of get_index_data_from_zerodha: the failure of both price
\* calls is raised to the caller instead of being answered with None.
get_index_data_raising(recent, quote, year) ==
    LET p == IndexPrices(recent, quote)
    IN  IF ~kite THEN NoPriceData
        ELSE IF recent.kind = "raise" /\ quote.kind = "raise"
        THEN [NoPriceData EXCEPT !.kind = "raise"]
        ELSE IF ~p.ok \/ p.current_price = 0 THEN NoPriceData
        ELSE [kind |-> "record", chartData |-> IndexChart(year)]
             @@ QuoteNumbers(p.current_price, p.prev_close)

\* main.py:337-451, for the index names SENSEX and NIFTY50
get_index_data_from_zerodha(recent, quote, year) ==
    LET p == IndexPrices(recent, quote)
    IN  IF ~kite THEN NoPriceData
        ELSE IF ~p.ok \/ p.current_price = 0 THEN NoPriceData
        ELSE [kind |-> "record", chartData |-> IndexChart(year)]
             @@ QuoteNumbers(p.current_price, p.prev_close)

\* main.py:467-508: the record of one index in the response: the broker's
\* numbers, zeros when there is no positive price, and the mock numbers of
\* the exception handler when fetching the price data raises.
IndexRecord(name, price_data) ==
    IF price_data.kind = "raise"
    THEN [symbol |-> name, price |-> mock_price(name) * 100,
          change |-> mock_price(name), changePercent |-> 100, chartData |-> <<>>]
    ELSE IF price_data.kind = "record" /\ price_data.price > 0
    THEN [symbol |-> name, price |-> price_data.price,
          change |-> price_data.change,
          changePercent |-> price_data.changePercent,
          chartData |-> price_data.chartData]
    ELSE [symbol |-> name, price |-> 0, change |-> 0, changePercent |-> 0,
          chartData |-> <<>>]

indexes == <<"SENSEX", "NIFTY50">>

\* main.py:453-510: GET /api/indexes
GetIndexes ==
    /\ broker = NoBroker
    /\ IF ~kite
       THEN broker' = [endpoint |-> "indexes", calls |-> <<>>, price_data |-> <<>>,
                       response |-> NotConfigured]
       ELSE \E r1 \in RecentOutcomes, q1 \in QuoteOutcomes, y1 \in YearOutcomes,
               r2 \in RecentOutcomes, q2 \in QuoteOutcomes, y2 \in YearOutcomes :
            LET data == << get_index_data_from_zerodha(r1, q1, y1),
                           get_index_data_from_zerodha(r2, q2, y2) >>
            IN  broker' =
                    [endpoint |-> "indexes",
                     calls |-> <<IndexCalls(r1, q1, y1), IndexCalls(r2, q2, y2)>>,
                     price_data |-> data,
                     response |->
                        [status |-> 200,
                         indexes |-> [i \in 1..2 |-> IndexRecord(indexes[i], data[i])]]]
    /\ UNCHANGED <<kite, resolverVars, streamVars, chatVars>>

----------------------------------------------------------------------------
(* /api/zerodha/holdings, main.py:633-733 *)

\* The magnitude below which the broker's pnl is replaced (0.01), in thousandths
pnl_threshold == 10

\* An entry of kite.holdings(): pnl is Num(x), None or absent.
Holding(symbol, average_price, quantity, pnl) ==
    [tradingsymbol |-> symbol, average_price |-> average_price,
     quantity |-> quantity, pnl |-> pnl]

Holdings ==
    { Holding("INFY", 100000, 10, Num(0)),
      Holding("TCS", 100000, 10, Num(42000)),
      Holding("ITC", 100000, 10, Num(-10)),
      Holding("SBIN", 100000, 10, Num(5)),
      Holding("WIPRO", 100000, 0, Absent),
      Holding("ONGC", 0, 10, Num(42000)),
      Holding("LT", 100000, 10, NoneVal) }

HoldingLists ==
    {<<>>} \cup {<<h>> : h \in Holdings}
    \cup { << Holding("INFY", 100000, 10, Num(0)), Holding("TCS", 100000, 10, Num(42000)) >>,
           << Holding("LT", 100000, 10, NoneVal), Holding("ONGC", 0, 10, Num(42000)) >> }

\* kite.holdings() returns a list or raises.
HoldingsRaises == [kind |-> "raise", holdings |-> <<>>]
HoldingsReturns(l) == [kind |-> "return", holdings |-> l]
HoldingsOutcomes == {HoldingsRaises} \cup {HoldingsReturns(l) : l \in HoldingLists}

\* Where the quote of one holding comes from: the batch call (main.py:651-656)
\* or, when the batch result lacks it, the call for the single symbol
\* (main.py:672-685).
QuoteSource(via, outcome) == [via |-> via, outcome |-> outcome]
QuoteSources ==
    {QuoteSource("batch", QuoteHas(d)) : d \in QuoteDatas}
    \cup {QuoteSource("single", o) : o \in QuoteOutcomes}

\* main.py:665-685: the current price and previous close of a holding
HoldingPrices(holding, source) ==
    IF source.outcome.kind = "data"
    THEN QuotePrices(source.outcome.data, holding.average_price)
    ELSE [current_price |-> holding.average_price, prev_close |-> holding.average_price]

\* Faulty variant of SelectPnl: the broker's value is taken when it is
\* negligible, the computed one otherwise.
SelectPnlSwapped(pnl_from_zerodha, calculated_pnl) ==
    IF Abs(pnl_from_zerodha) < pnl_threshold THEN pnl_from_zerodha ELSE calculated_pnl

\* main.py:699: pnl = calculated_pnl if abs(pnl_from_zerodha) < 0.01 else pnl_from_zerodha
SelectPnl(pnl_from_zerodha, calculated_pnl) ==
    IF Abs(pnl_from_zerodha) < pnl_threshold THEN calculated_pnl ELSE pnl_from_zerodha

\* main.py:702: (pnl / invested_value * 100) if invested_value > 0 else 0,
\* rounded to two decimals
pnl_percent(pnl, invested_value) ==
    IF invested_value > 0 THEN RoundHalfEven(pnl * 10000, invested_value) ELSE 0

Skipped == [kind |-> "skipped"]

\* Faulty variant of HoldingRecord: the percentage is computed without the
\* test of invested_value, so a zero invested value raises ZeroDivisionError
\* and the holding is skipped.
HoldingRecordUnguarded(holding, source) ==
    LET p == HoldingPrices(holding, source)
        invested_value == holding.average_price * holding.quantity
        total_value == p.current_price * holding.quantity
        pnl == SelectPnl(Val(holding.pnl, 0), total_value - invested_value)
    IN  IF holding.pnl = NoneVal \/ invested_value = 0 THEN Skipped
        ELSE [kind |-> "record", symbol |-> holding.tradingsymbol,
              quantity |-> holding.quantity,
              averagePrice |-> round2(holding.average_price),
              currentPrice |-> round2(p.current_price),
              prevClose |-> round2(p.prev_close),
              change |-> round2(p.current_price - p.prev_close),
              changePercent |-> change_percent(p.current_price, p.prev_close),
              pnl |-> round2(pnl),
              pnlPercent |-> pnl_percent(pnl, invested_value),
              totalValue |-> round2(total_value),
              investedValue |-> round2(invested_value)]

\* main.py:660-721: the record of one holding; abs(None) raises, and the
\* handler at 719-721 skips the holding.
HoldingRecord(holding, source) ==
    LET p == HoldingPrices(holding, source)
        invested_value == holding.average_price * holding.quantity
        total_value == p.current_price * holding.quantity
        pnl == SelectPnl(Val(holding.pnl, 0), total_value - invested_value)
    IN  IF holding.pnl = NoneVal THEN Skipped
        ELSE [kind |-> "record", symbol |-> holding.tradingsymbol,
              quantity |-> holding.quantity,
              averagePrice |-> round2(holding.average_price),
              currentPrice |-> round2(p.current_price),
              prevClose |-> round2(p.prev_close),
              change |-> round2(p.current_price - p.prev_close),
              changePercent |-> change_percent(p.current_price, p.prev_close),
              pnl |-> round2(pnl),
              pnlPercent |-> pnl_percent(pnl, invested_value),
              totalValue |-> round2(total_value),
              investedValue |-> round2(invested_value)]

IsRecord(r) == r.kind = "record"

RECURSIVE Sum(_, _)
\* sum(h.get(field, 0) for h in records)
Sum(records, field) ==
    IF records = <<>> THEN 0
    ELSE records[1][field] + Sum(SubSeq(records, 2, Len(records)), field)

\* The broker calls of a request that raised.
Failed(names) == {n \in DOMAIN names : names[n]}

\* main.py:633-733: GET /api/zerodha/holdings
GetHoldings ==
    /\ broker = NoBroker
    /\ IF ~kite
       THEN broker' = [endpoint |-> "holdings", failed |-> {}, holdings |-> <<>>,
                       sources |-> <<>>, processed |-> <<>>, response |-> NotConfigured]
       ELSE \E o \in HoldingsOutcomes, batchRaises \in BOOLEAN :
            \E sources \in [1..Len(o.holdings) -> QuoteSources] :
                /\ batchRaises => \A i \in DOMAIN sources : sources[i].via = "single"
                /\ (batchRaises => o.holdings # <<>>)
                /\ LET processed == [i \in 1..Len(o.holdings) |->
                                        HoldingRecord(o.holdings[i], sources[i])]
                       holdings_data == SelectSeq(processed, IsRecord)
                       failed == Failed(
                            [holdings |-> o.kind = "raise",
                             quote |-> batchRaises
                                \/ \E i \in DOMAIN sources :
                                    sources[i].outcome.kind = "raise"])
                   IN  broker' =
                         [endpoint |-> "holdings", failed |-> failed,
                          holdings |-> o.holdings, sources |-> sources,
                          processed |-> processed,
                          response |->
                            IF o.kind = "raise" THEN ProviderError("holdings")
                            ELSE [status |-> 200, success |-> TRUE,
                                  holdings |-> holdings_data,
                                  totalHoldings |-> Len(holdings_data),
                                  totalValue |-> Sum(holdings_data, "totalValue"),
                                  totalInvested |-> Sum(holdings_data, "investedValue"),
                                  totalPnl |-> Sum(holdings_data, "pnl")]]
    /\ UNCHANGED <<kite, resolverVars, streamVars, chatVars>>

----------------------------------------------------------------------------
(* /api/zerodha/watchlist, main.py:735-821 *)

\* kite.watchlists(): the client has no such method, the call raises, or it
\* returns the list of watchlists (empty, or with a first watchlist).
WatchlistsOutcomes == {"nomethod", "raise", "empty", "list"}

\* kite.watchlist(id) returns the trading symbols of the watchlist or raises.
StocksRaises == [kind |-> "raise", stocks |-> <<>>]
StocksReturns(l) == [kind |-> "return", stocks |-> l]
StocksOutcomes ==
    {StocksRaises, StocksReturns(<<>>), StocksReturns(<<"INFY">>),
     StocksReturns(<<"INFY", "TCS">>)}

\* The entry of a symbol in the result of a batch kite.quote: absent or data.
BatchEntries == {QuoteLacks} \cup {QuoteHas(d) : d \in QuoteDatas}

\* main.py:783-809: the record of one watchlist stock
WatchlistRecord(symbol, entry) ==
    IF entry.kind = "data"
    THEN LET p == QuotePrices(entry.data, 0)
         IN  [kind |-> "record", symbol |-> symbol,
              prevClose |-> round2(p.prev_close)]
             @@ QuoteNumbers(p.current_price, p.prev_close)
    ELSE Skipped

\* main.py:735-821: GET /api/zerodha/watchlist
GetWatchlist ==
    /\ broker = NoBroker
    /\ IF ~kite
       THEN broker' = [endpoint |-> "watchlist", failed |-> {}, stocks |-> <<>>,
                       entries |-> <<>>, response |-> NotConfigured]
       ELSE \E w \in WatchlistsOutcomes, so \in StocksOutcomes, quoteRaises \in BOOLEAN :
            \E entries \in [1..Len(so.stocks) -> BatchEntries] :
                LET listed == w = "list"
                    quoted == listed /\ so.stocks # <<>>
                    records == [i \in 1..Len(so.stocks) |->
                                    WatchlistRecord(so.stocks[i], entries[i])]
                    watchlist_data == IF quoted THEN SelectSeq(records, IsRecord) ELSE <<>>
                    failed == Failed(
                        [watchlists |-> w = "raise",
                         watchlist |-> listed /\ so.kind = "raise",
                         quote |-> quoted /\ quoteRaises])
                IN  /\ ~listed => so = StocksReturns(<<>>)
                    /\ ~quoted => ~quoteRaises
                    /\ quoteRaises => \A i \in DOMAIN entries : entries[i] = QuoteLacks
                    /\ broker' =
                         [endpoint |-> "watchlist", failed |-> failed,
                          stocks |-> so.stocks, entries |-> entries,
                          response |->
                            IF failed \cap {"watchlist", "quote"} # {}
                            THEN ProviderError("watchlist")
                            ELSE [status |-> 200, success |-> TRUE,
                                  watchlist |-> watchlist_data,
                                  totalStocks |-> Len(watchlist_data)]]
    /\ UNCHANGED <<kite, resolverVars, streamVars, chatVars>>

----------------------------------------------------------------------------
(* /api/zerodha/portfolio, main.py:823-884 *)

\* kite.positions() returns the pnl of the day and net positions, or raises.
PositionsRaises == [kind |-> "raise", day |-> <<>>, net |-> <<>>]
Positions(day, net) == [kind |-> "return", day |-> day, net |-> net]
PositionsOutcomes ==
    {PositionsRaises, Positions(<<>>, <<>>), Positions(<<1500>>, <<1500, -250>>)}

RECURSIVE SumSeq(_)
SumSeq(xs) == IF xs = <<>> THEN 0 ELSE xs[1] + SumSeq(SubSeq(xs, 2, Len(xs)))

\* main.py:859-866: the current price of a holding, its average price when
\* the quote raises or lacks the symbol
PortfolioPrice(holding, outcome) ==
    IF outcome.kind = "data"
    THEN Val(outcome.data.last_price, holding.average_price)
    ELSE holding.average_price

\* main.py:823-884: GET /api/zerodha/portfolio
GetPortfolio ==
    /\ broker = NoBroker
    /\ IF ~kite
       THEN broker' = [endpoint |-> "portfolio", failed |-> {}, response |-> NotConfigured]
       ELSE \E po \in PositionsOutcomes, ho \in HoldingsOutcomes :
            \E quotes \in [1..Len(ho.holdings) -> QuoteOutcomes] :
                LET held == po.kind = "return"
                    n == Len(ho.holdings)
                    value == [i \in 1..n |->
                        PortfolioPrice(ho.holdings[i], quotes[i]) * ho.holdings[i].quantity]
                    invested == [i \in 1..n |->
                        ho.holdings[i].average_price * ho.holdings[i].quantity]
                    failed == Failed(
                        [positions |-> po.kind = "raise",
                         holdings |-> held /\ ho.kind = "raise",
                         quote |-> \E i \in 1..n : quotes[i].kind = "raise"])
                IN  /\ ~held => ho = HoldingsReturns(<<>>)
                    /\ broker' =
                         [endpoint |-> "portfolio", failed |-> failed,
                          response |->
                            IF failed \cap {"positions", "holdings"} # {}
                            THEN ProviderError("portfolio")
                            ELSE [status |-> 200, success |-> TRUE,
                                  dayPositions |-> Len(po.day),
                                  netPositions |-> Len(po.net),
                                  holdings |-> n,
                                  dayPnl |-> round2(SumSeq(po.day)),
                                  netPnl |-> round2(SumSeq(po.net)),
                                  totalValue |-> round2(SumSeq(value)),
                                  totalInvested |-> round2(SumSeq(invested)),
                                  totalPnl |-> round2(SumSeq(value) - SumSeq(invested))]]
    /\ UNCHANGED <<kite, resolverVars, streamVars, chatVars>>

----------------------------------------------------------------------------
(* /api/stocks/ticker and /api/stocks/{symbol}, main.py:589-631 and 886-1001 *)

\* Two of the stocks of get_popular_stocks
popular_stocks == <<"RELIANCE.NS", "TCS.NS">>

\* main.py:605-623: the record of one ticker stock, none unless the price is positive
TickerRecord(symbol, entry) ==
    LET p == QuotePrices(entry.data, 0)
    IN  IF entry.kind = "data" /\ p.current_price > 0
        THEN [kind |-> "record", symbol |-> symbol]
             @@ QuoteNumbers(p.current_price, p.prev_close)
        ELSE Skipped

\* main.py:589-631: GET /api/stocks/ticker
GetTickerStocks ==
    /\ broker = NoBroker
    /\ IF ~kite
       THEN broker' = [endpoint |-> "ticker", failed |-> {}, entries |-> <<>>,
                       response |-> [status |-> 200, stocks |-> <<>>]]
       ELSE \E quoteRaises \in BOOLEAN :
            \E entries \in [1..Len(popular_stocks) -> BatchEntries] :
                /\ quoteRaises => \A i \in DOMAIN entries : entries[i] = QuoteLacks
                /\ LET records == [i \in 1..Len(popular_stocks) |->
                                      TickerRecord(popular_stocks[i], entries[i])]
                   IN  broker' =
                         [endpoint |-> "ticker",
                          failed |-> Failed([quote |-> quoteRaises]),
                          entries |-> entries,
                          response |-> [status |-> 200,
                                        stocks |-> SelectSeq(records, IsRecord)]]
    /\ UNCHANGED <<kite, resolverVars, streamVars, chatVars>>

\* main.py:899-900
NotFound == HTTPException(404, "Stock not found in Zerodha. Please check the symbol.")

\* main.py:886-1001: GET /api/stocks/{symbol}, for a quote entry that has an
\* instrument_token; of the response, the price fields and the chart.
GetStockDetails ==
    /\ broker = NoBroker
    /\ IF ~kite
       THEN broker' = [endpoint |-> "stock", failed |-> {}, quote |-> NotCalled,
                       response |-> NotConfigured]
       ELSE \E q \in QuoteOutcomes, y \in YearOutcomes, instrumentsRaise \in BOOLEAN :
            LET found == q.kind = "data"
                p == QuotePrices(q.data, 0)
                failed == Failed(
                    [quote |-> q.kind = "raise",
                     historical_data |-> found /\ y.kind = "raise",
                     instruments |-> found /\ instrumentsRaise])
            IN  /\ ~found => y = HistoricalRaises /\ ~instrumentsRaise
                /\ broker' =
                     [endpoint |-> "stock", failed |-> failed, quote |-> q,
                      response |->
                        IF q.kind = "raise" \/ "instruments" \in failed
                        THEN ProviderError("stock data")
                        ELSE IF ~found THEN NotFound
                        ELSE [status |-> 200, previousClose |-> round2(p.prev_close),
                              chartData |-> IndexChart(y)]
                             @@ QuoteNumbers(p.current_price, p.prev_close)]
    /\ UNCHANGED <<kite, resolverVars, streamVars, chatVars>>

----------------------------------------------------------------------------
Init ==
    /\ now = 0
    /\ index_data_cache = <<>>
    /\ call = [t \in Threads |-> IdleCall]
    /\ last = <<>>
    /\ ncalls = 0
    /\ stream = NoStream
    /\ gen = "start"
    /\ events = <<>>
    /\ client = TRUE
    /\ chat = NoChat
    /\ kite = TRUE
    /\ broker = NoBroker

Next ==
    \/ \E t \in Threads, req \in Requests : CacheCheck(t, req)
    \/ \E t \in Threads : Sleep(t)
    \/ \E t \in Threads : HistoryCall(t)
    \/ \E t \in Threads : InfoCall(t)
    \/ \E t \in Threads : Fallback(t)
    \/ \E t \in Threads : ProcessHistory(t)
    \/ \E t \in Threads : Return(t)
    \/ \E d \in TickSteps : Tick(d)

Spec == Init /\ [][Next]_vars

StreamNext ==
    \/ StreamOpen
    \/ StreamOpenFails
    \/ StreamChunk
    \/ StreamExhausted
    \/ StreamFails

StreamSpec == Init /\ [][StreamNext]_vars

\* The process starts with or without an LLM credential and serves one
\* /api/chat request; no generator exists before the request.
ChatInit ==
    /\ now = 0
    /\ index_data_cache = <<>>
    /\ call = [t \in Threads |-> IdleCall]
    /\ last = <<>>
    /\ ncalls = 0
    /\ stream = NoStream
    /\ gen = "none"
    /\ events = <<>>
    /\ client \in BOOLEAN
    /\ chat = NoChat
    /\ kite = TRUE
    /\ broker = NoBroker

ChatNext ==
    \/ Chat
    \/ StreamNext

ChatSpec == ChatInit /\ [][ChatNext]_vars

\* The process starts with or without the brokerage credentials and serves
\* one brokerage request.
BrokerInit ==
    /\ now = 0
    /\ index_data_cache = <<>>
    /\ call = [t \in Threads |-> IdleCall]
    /\ last = <<>>
    /\ ncalls = 0
    /\ stream = NoStream
    /\ gen = "none"
    /\ events = <<>>
    /\ client = TRUE
    /\ chat = NoChat
    /\ kite \in BOOLEAN
    /\ broker = NoBroker

BrokerNext ==
    \/ GetIndexes
    \/ GetHoldings
    \/ GetWatchlist
    \/ GetPortfolio
    \/ GetTickerStocks
    \/ GetStockDetails

BrokerSpec == BrokerInit /\ [][BrokerNext]_vars

\* The resolver and the brokerage paths share no state, so their steps are
\* not interleaved: a behaviour is a run of resolver calls or one brokerage
\* request of a configured process.
ServiceNext ==
    \/ broker = NoBroker /\ Next
    \/ ncalls = 0 /\ now = 0 /\ BrokerNext

ServiceSpec == Init /\ [][ServiceNext]_vars

\* The requests of a single resolver call: the two indexes, a symbol in lower
\* case, another symbol, with intraday and daily intervals.
TierRequests ==
    { <<"SENSEX", "5d", "1h">>,
      <<"NIFTY50", "5d", "30m">>,
      <<"sensex", "1d", "5m">>,
      <<"TCS.NS", "1mo", "1d">> }

\* One call of get_stock_index_data on an empty cache, for any of TierRequests.
TierNext ==
    \/ \E t \in Threads, req \in TierRequests : ncalls = 0 /\ CacheCheck(t, req)
    \/ \E t \in Threads : Sleep(t)
    \/ \E t \in Threads : HistoryCall(t)
    \/ \E t \in Threads : InfoCall(t)
    \/ \E t \in Threads : Fallback(t)
    \/ \E t \in Threads : ProcessHistory(t)
    \/ \E t \in Threads : Return(t)

TierSpec == Init /\ [][TierNext]_vars

\* Two threads run get_stock_index_data for the same key at the same time.
\* Each step of a call is atomic, as the interpreter lock makes the dict
\* lookup and the dict assignment of main.py:145-146 and 285.  The threads
\* are numbered in the order their calls begin; their steps interleave freely
\* from then on.  The call of thread 1 meets every provider outcome; the
\* provider answers the first history request of thread 2 with a series.
ConcThreads == {1, 2}

ConcRequests == { <<"SENSEX", "5d", "1h">> }

ConcInit ==
    /\ now = 0
    /\ index_data_cache = <<>>
    /\ call = [t \in ConcThreads |-> IdleCall]
    /\ last = <<>>
    /\ ncalls = 0
    /\ stream = NoStream
    /\ gen = "start"
    /\ events = <<>>
    /\ client = TRUE
    /\ chat = NoChat
    /\ kite = TRUE
    /\ broker = NoBroker

ConcNext ==
    \/ \E t \in ConcThreads, req \in ConcRequests :
            ncalls = t - 1 /\ CacheCheck(t, req)
    \/ \E t \in ConcThreads : Sleep(t)
    \/ \E t \in ConcThreads :
            HistoryCall(t) /\ (t = 2 => NonEmpty(call'[t].history))
    \/ \E t \in ConcThreads : InfoCall(t)
    \/ \E t \in ConcThreads : Fallback(t)
    \/ \E t \in ConcThreads : ProcessHistory(t)
    \/ \E t \in ConcThreads : Return(t)

ConcSpec == ConcInit /\ [][ConcNext]_vars

\* Calls for two different triples that main.py:143 joins to the same key,
\* "NIFTY_50_5d_1h".  The provider knows no period "50_5d": a history request
\* with it raises or comes back empty.
KeyRequests == { <<"NIFTY_50", "5d", "1h">>, <<"NIFTY", "50_5d", "1h">> }

KnownPeriods == {"1d", "5d", "1mo", "3mo", "6mo", "1y", "2y", "5y", "10y", "ytd", "max"}

KeyNext ==
    \/ \E t \in Threads, req \in KeyRequests : CacheCheck(t, req)
    \/ \E t \in Threads : Sleep(t)
    \/ \E t \in Threads :
            HistoryCall(t)
                /\ (call[t].req[2] \notin KnownPeriods => ~NonEmpty(call'[t].history))
    \/ \E t \in Threads : InfoCall(t)
    \/ \E t \in Threads : Fallback(t)
    \/ \E t \in Threads : ProcessHistory(t)
    \/ \E t \in Threads : Return(t)
    \/ \E d \in TickSteps : Tick(d)

KeySpec == Init /\ [][KeyNext]_vars

----------------------------------------------------------------------------
(* Claims about get_stock_index_data, checked under Spec *)

Returned(t) == call[t].pc = "done"
Key(t) == cache_key(call[t].req)
Tiers == {"success", "limited_data", "mock_data", "error_fallback"}

\* The cache entry for the call's key when the call started, if any.
HadEntry(t) == Key(t) \in DOMAIN call[t].cache0
Entry0(t) == call[t].cache0[Key(t)]
AgeAtStart(t) == call[t].start - Entry0(t)[2]

\* Every history call and every info call of the finished call failed.
AllProvidersFailed(t) ==
    /\ ~call[t].hit
    /\ ~NonEmpty(call[t].history)
    /\ call[t].info.empty

\* C1: whatever the providers answer, the Quote a call returns carries a
\* status that is one of success, limited_data, mock_data, error_fallback.
C1_StatusIsATier ==
    \A t \in Threads : Returned(t) => call[t].result.status \in Tiers

C1_Witness ==
    \E t \in Threads :
        /\ Returned(t) /\ ~call[t].hit
        /\ call[t].result.status = "limited_data"
        /\ Len(call[t].log) = 3 * max_retries

\* change / previous_close * 100 on returned values (hundredths), 0 when
\* previous_close = 0, to the two decimals a Quote carries.
PercentOf(change, previous_close) ==
    IF previous_close = 0 THEN 0
    ELSE RoundHalfEven(change * 10000, previous_close)

\* C2: every returned Quote, in every tier, satisfies
\* change = current_price - previous_close and
\* change_percent = change / previous_close * 100 (0 when previous_close = 0).
C2_ChangeInvariant ==
    \A t \in Threads :
        Returned(t) =>
            LET q == call[t].result
            IN  /\ q.change = q.current_price - q.previous_close
                /\ q.change_percent = PercentOf(q.change, q.previous_close)

\* C3 as stated: whenever the history provider returned a non-empty series to
\* the call, the returned status is success.
C3_NonEmptySeriesIsSuccess ==
    \A t \in Threads :
        Returned(t) /\ NonEmpty(call[t].history) =>
            call[t].result.status = "success"

\* C3 amended: whenever the history provider returned a non-empty series to
\* the call, the returned status is success if processing the series does
\* not raise, and error_fallback (never limited_data or mock_data) if it
\* does, also when the cache held a lower-tier entry for the key.
C3_NonEmptySeriesTier ==
    \A t \in Threads :
        Returned(t) /\ NonEmpty(call[t].history) =>
            call[t].result.status =
                IF call[t].history.closeOk THEN "success" ELSE "error_fallback"

C3_Witness ==
    \E t \in Threads :
        /\ Returned(t) /\ NonEmpty(call[t].history)
        /\ call[t].result.status = "success"
        /\ HadEntry(t) /\ Entry0(t)[1].status = "mock_data"

\* C4: if every history call and every info call fails, the call still
\* returns a Quote, and its status is mock_data or error_fallback.
C4_MockTierGuarantee ==
    \A t \in Threads :
        Returned(t) /\ AllProvidersFailed(t) =>
            /\ call[t].result.status \in {"mock_data", "error_fallback"}
            /\ call[t].result.current_price = mock_price(call[t].req[1]) * 100

C4_Witness ==
    \E t \in Threads :
        /\ Returned(t) /\ AllProvidersFailed(t)
        /\ Len(call[t].log) = 3 * max_retries
        /\ call[t].infoCalls = max_retries
        /\ call[t].result.status = "mock_data"

\* C5 as stated: two calls with the same key made within the TTL window of
\* each other return identical payloads, whatever tier the first ended in.
C5_SameKeyWithinTtlIdentical ==
    \A t \in Threads :
        (/\ Returned(t)
         /\ Key(t) \in DOMAIN last
         /\ call[t].start - last[Key(t)].start < 2 * cache_ttl)
        => call[t].result = last[Key(t)].result

\* C5 amended: a call returns the payload of the previous call with the same
\* key if that call returned or stored a cache entry (it did not end in
\* error_fallback) and this call is made less than 30 s after that entry's
\* timestamp.
C5_SameEntryIdentical ==
    \A t \in Threads :
        (/\ Returned(t)
         /\ Key(t) \in DOMAIN last
         /\ last[Key(t)].stored >= 0
         /\ call[t].start - last[Key(t)].stored < 2 * cache_ttl)
        => call[t].result = last[Key(t)].result

C5_Witness ==
    \E t \in Threads :
        /\ Returned(t)
        /\ Key(t) \in DOMAIN last
        /\ last[Key(t)].stored >= 0
        /\ call[t].start - last[Key(t)].stored = 2 * cache_ttl - 1
        /\ call[t].result = last[Key(t)].result
        /\ call[t].result.status = "limited_data"

\* C6: a call made when the entry for its key is absent or at least 30 s old
\* (exactly 30 s included) is not served from the cache and calls the
\* history provider; a call made when the entry is less than 30 s old
\* returns that entry.
C6_CacheExpiry ==
    \A t \in Threads :
        call[t].pc # "idle" =>
            IF HadEntry(t) /\ AgeAtStart(t) < 2 * cache_ttl
            THEN /\ Returned(t) /\ call[t].hit
                 /\ call[t].result = Entry0(t)[1]
            ELSE /\ ~call[t].hit
                 /\ Returned(t) => Len(call[t].log) >= 1

C6_Witness ==
    \E t \in Threads :
        /\ Returned(t) /\ HadEntry(t)
        /\ AgeAtStart(t) = 2 * cache_ttl
        /\ ~call[t].hit
        /\ Len(call[t].log) >= 1

\* C7: a call served from the cache makes no history or info call, waits
\* for nothing, leaves the cache (entry and timestamp) as it was, and
\* returns the stored payload with the status it was stored with.
C7_HitIsImmediate ==
    \A t \in Threads :
        Returned(t) /\ call[t].hit =>
            /\ call[t].log = <<>>
            /\ call[t].infoCalls = 0
            /\ call[t].waits = <<>>
            /\ now = call[t].start
            /\ index_data_cache = call[t].cache0
            /\ call[t].result = Entry0(t)[1]
            /\ call[t].stored = Entry0(t)[2]

C7_Witness ==
    \E t \in Threads :
        /\ Returned(t) /\ call[t].hit
        /\ call[t].result.status = "mock_data"
        /\ AgeAtStart(t) = 2 * cache_ttl - 1

\* C8: a call that returns error_fallback leaves the cache unchanged, the
\* cache never holds an error_fallback payload, the call after an
\* error_fallback with no fresh entry for the key calls the history provider
\* again, and a success, limited_data or mock_data result is in the cache,
\* with the time of the store, when it is returned.
C8_ErrorFallbackNotCached ==
    /\ \A k \in DOMAIN index_data_cache :
          index_data_cache[k][1].status \in Tiers \ {"error_fallback"}
    /\ \A t \in Threads :
          Returned(t) =>
            /\ call[t].result.status = "error_fallback" =>
                  index_data_cache = call[t].cache0
            /\ (~call[t].hit /\ call[t].result.status # "error_fallback") =>
                  /\ Key(t) \in DOMAIN index_data_cache
                  /\ index_data_cache[Key(t)] = <<call[t].result, now>>
                  /\ \A k \in DOMAIN call[t].cache0 \ {Key(t)} :
                        index_data_cache[k] = call[t].cache0[k]
            /\ (/\ Key(t) \in DOMAIN last
                /\ last[Key(t)].result.status = "error_fallback"
                /\ ~(HadEntry(t) /\ AgeAtStart(t) < 2 * cache_ttl)) =>
                  Len(call[t].log) >= 1

C8_Witness ==
    \E t \in Threads :
        /\ Returned(t)
        /\ call[t].result.status = "error_fallback"
        /\ HadEntry(t)
        /\ index_data_cache = call[t].cache0

----------------------------------------------------------------------------
(* Claims about generate_stream, checked under StreamSpec *)

IsTerminal(e) == "done" \in DOMAIN e \/ "error" \in DOMAIN e
Terminals == {i \in 1..Len(events) : IsTerminal(events[i])}

\* A chunk that carries a content fragment: its delta's content is a string.
IsFragment(chunk) ==
    chunk.choices /\ chunk.hasContent /\ chunk.content[1] = "str"

Fragments == SelectSeq(stream.chunks, IsFragment)

\* C9: a run of generate_stream that has finished has emitted exactly one
\* terminal event (done or error), as its last event; a run that has not
\* finished has emitted none.
C9_OneTerminalEvent ==
    /\ gen = "finished" =>
          /\ Cardinality(Terminals) = 1
          /\ Terminals = {Len(events)}
          /\ DOMAIN events[Len(events)] \in {{"done"}, {"error"}}
    /\ gen # "finished" => Terminals = {}

C9_Witness ==
    /\ gen = "finished"
    /\ stream.end = "fail"
    /\ Len(stream.chunks) = MaxChunks
    /\ Len(events) >= 2
    /\ "error" \in DOMAIN events[Len(events)]

\* C10: when the stream has delivered n content fragments and then failed,
\* the events are the n content events in arrival order followed by one
\* error event with the failure message; when it ended normally, the n
\* content events followed by one done event.
C10_FragmentsThenTerminal ==
    gen = "finished" =>
        events =
            [i \in 1..Len(Fragments) |-> [content |-> Fragments[i].content[2]]]
            \o (IF stream.end = "fail"
                THEN <<[error |-> stream.msg]>>
                ELSE <<[done |-> TRUE]>>)

C10_Witness ==
    /\ gen = "finished"
    /\ stream.end = "fail"
    /\ Len(Fragments) = 3
    /\ Len(events) = 4
    /\ \E i \in 1..3 : events[i] = [content |-> ""]


\* ---------------------------------------------------------------------
\* Claims about chat, checked under ChatSpec
\* ---------------------------------------------------------------------

Min(a, b) == IF a < b THEN a ELSE b

\* The request was answered with the streaming response.
Streaming == chat.response = StreamingResponse

\* C11: the message list handed to the LLM is the system persona turn, then
\* the last min(h, 10) turns of the history in their order (each as its role
\* and content, "user" and "" standing for a key the turn lacks), then the
\* user turn of the new message: min(h, 10) + 2 messages, the first of them
\* the one system turn the relay supplies.
C11_ForwardedMessages ==
    Streaming =>
        LET h == Len(chat.history)
            n == Min(h, 10)
            m == chat.messages
        IN  /\ Len(m) = n + 2
            /\ m[1] = [role |-> "system", content |-> WARREN_BUFFETT_PROMPT]
            /\ \A i \in 1..n :
                LET turn == chat.history[h - n + i]
                IN  /\ m[1 + i].role = IF turn.role = Missing THEN "user" ELSE turn.role
                    /\ m[1 + i].content = IF turn.content = Missing THEN "" ELSE turn.content
            /\ m[n + 2] = [role |-> "user", content |-> chat.message]
            /\ \A i \in 2..(n + 2) :
                m[i].role = "system" => chat.history[h - n + i - 1].role = "system"

\* C11 witness: a history of 12 turns was cut to its last 10, a system turn
\* of the client among them, and the stream was set up.
C11_Witness ==
    /\ Streaming
    /\ Len(chat.history) = 12
    /\ Len(chat.messages) = 12
    /\ chat.messages[2].content = "m3"
    /\ \E i \in 2..11 : chat.messages[i].role = "system"

\* The LLM has been called: the generator has run client.chat.completions.create.
LLMCalled == gen \notin {"none", "start"}

\* The LLM call failed at run time: the stream carries the error event.
RuntimeFailure == stream.end = "fail"

\* C12: without an LLM credential the request is answered with the
\* configuration error, and then no generator exists, the LLM is never called
\* and no event is emitted; the configuration error is given only then, and a
\* run-time failure of the LLM call comes as an error event of a streaming
\* response, which differs from it in status.
C12_ConfigErrorBeforeLLM ==
    /\ (~client /\ chat.response # NoResponse) => chat.response = ChatConfigError
    /\ ~client => gen = "none" /\ ~LLMCalled /\ events = <<>> /\ stream = NoStream
    /\ chat.response = ChatConfigError => ~client
    /\ RuntimeFailure =>
        /\ Streaming
        /\ chat.response.status # ChatConfigError.status
        /\ events # <<>> /\ events[Len(events)] = [error |-> stream.msg]
    /\ ChatBuildError # ChatConfigError

\* C12 witness: a request was answered with the configuration error.
C12_Witness ==
    /\ ~client
    /\ chat.response = ChatConfigError
    /\ Len(chat.history) > 0

\* C12 witness of the other error: the LLM call of a configured process failed.
C12_RuntimeFailureWitness == client /\ Streaming /\ RuntimeFailure

\* ---------------------------------------------------------------------
\* Claims about the brokerage paths, checked under BrokerSpec and ServiceSpec
\* ---------------------------------------------------------------------

Served(endpoint) == broker.endpoint = endpoint
ServedOk(endpoint) == broker.endpoint = endpoint /\ broker.response.status = 200

\* C13: for every holding of the holdings response, the reported pnl is the
\* broker's pnl (to two decimals) when its magnitude is at least 0.01, and
\* otherwise the computed value current_price * quantity - average_price *
\* quantity, which is totalValue - investedValue of the record; every holding
\* whose processing does not raise is reported.
C13_PnlSelection ==
    ServedOk("holdings") =>
        /\ \A i \in DOMAIN broker.holdings :
            LET h == broker.holdings[i]
                r == broker.processed[i]
                reported == IF h.pnl = Absent THEN 0 ELSE h.pnl[2]
                current_price == HoldingPrices(h, broker.sources[i]).current_price
                computed == current_price * h.quantity - h.average_price * h.quantity
            IN  /\ IsRecord(r) <=> h.pnl # NoneVal
                /\ IsRecord(r) =>
                    IF Abs(reported) >= 10
                    THEN r.pnl = RoundHalfEven(reported, 10)
                    ELSE /\ r.pnl = RoundHalfEven(computed, 10)
                         /\ r.pnl = r.totalValue - r.investedValue
        /\ broker.response.holdings = SelectSeq(broker.processed, IsRecord)

\* C13 witness: broker pnl 0.0 with computed 150.0 is reported as 150.0, and
\* broker pnl 42.0 with computed 150.0 as 42.0.
C13_Witness ==
    /\ ServedOk("holdings")
    /\ Len(broker.response.holdings) = 2
    /\ broker.holdings[1].pnl = Num(0) /\ broker.response.holdings[1].pnl = 15000
    /\ broker.holdings[2].pnl = Num(42000) /\ broker.response.holdings[2].pnl = 4200
    /\ broker.response.holdings[2].totalValue - broker.response.holdings[2].investedValue = 15000

\* A record of the given symbol with the given percentage field equal to 0.
ZeroPercent(records, symbol, field) ==
    \E i \in DOMAIN records : records[i].symbol = symbol /\ records[i][field] = 0

\* The info dict of the resolver has a positive price and previous close 0.
InfoPrevCloseZero(info) ==
    /\ info.kind = "dict" /\ info.previousClose = Num(0)
    /\ IF Truthy(info.regularMarketPrice) THEN info.regularMarketPrice[2] > 0
       ELSE Truthy(info.currentPrice) /\ info.currentPrice[2] > 0

\* C14: a previous close of 0 or an invested value of 0 gives a percentage of
\* exactly 0, in a response of the tier or kind the same input gives with any
\* other previous close: the success and limited_data tiers of the resolver,
\* and the index, stock, ticker, watchlist and holdings records of the
\* brokerage paths.
C14_ZeroDivisionSafe ==
    /\ \A t \in Threads :
        LET c == call[t]
        IN  (Returned(t) /\ ~c.hit) =>
                /\ (NonEmpty(c.history) /\ c.history.closeOk
                        /\ c.history.rows[1].Close = 0) =>
                    /\ c.result.status = "success"
                    /\ c.result.previous_close = 0
                    /\ c.result.change_percent = 0
                /\ (~NonEmpty(c.history) /\ InfoPrevCloseZero(c.info)) =>
                    /\ c.result.status = "limited_data"
                    /\ c.result.previous_close = 0
                    /\ c.result.change_percent = 0
    /\ Served("indexes") =>
        \A i \in DOMAIN broker.calls :
            LET p == IndexPrices(broker.calls[i].recent, broker.calls[i].quote)
            IN  (p.ok /\ p.current_price > 0 /\ p.prev_close = 0) =>
                    /\ broker.response.status = 200
                    /\ broker.response.indexes[i].price = RoundHalfEven(p.current_price, 10)
                    /\ broker.response.indexes[i].changePercent = 0
    /\ Served("holdings") =>
        \A i \in DOMAIN broker.holdings :
            LET h == broker.holdings[i]
                p == HoldingPrices(h, broker.sources[i])
            IN  ((p.prev_close = 0 \/ h.average_price * h.quantity = 0) /\ h.pnl # NoneVal) =>
                    /\ broker.response.status = 200
                    /\ IsRecord(broker.processed[i])
                    /\ p.prev_close = 0 =>
                        ZeroPercent(broker.response.holdings, h.tradingsymbol, "changePercent")
                    /\ h.average_price * h.quantity = 0 =>
                        ZeroPercent(broker.response.holdings, h.tradingsymbol, "pnlPercent")
    /\ Served("watchlist") =>
        \A i \in DOMAIN broker.entries :
            (broker.entries[i].kind = "data" /\ broker.entries[i].data.close = Num(0)) =>
                /\ broker.response.status = 200
                /\ ZeroPercent(broker.response.watchlist, broker.stocks[i], "changePercent")
    /\ Served("ticker") =>
        \A i \in DOMAIN broker.entries :
            (broker.entries[i].kind = "data" /\ broker.entries[i].data.close = Num(0)
                    /\ broker.entries[i].data.last_price # Absent
                    /\ broker.entries[i].data.last_price[2] > 0) =>
                ZeroPercent(broker.response.stocks, popular_stocks[i], "changePercent")
    /\ (Served("stock") /\ broker.quote.kind = "data"
            /\ broker.quote.data.close = Num(0)
            /\ broker.failed \cap {"quote", "instruments"} = {}) =>
            /\ broker.response.status = 200
            /\ broker.response.previousClose = 0
            /\ broker.response.changePercent = 0

\* C14 witness: a holding without invested value, whose quote has previous
\* close 0, is reported with both percentages 0.
C14_Witness ==
    /\ ServedOk("holdings")
    /\ Len(broker.response.holdings) = 1
    /\ broker.response.holdings[1].investedValue = 0
    /\ broker.response.holdings[1].prevClose = 0
    /\ broker.response.holdings[1].currentPrice > 0
    /\ broker.response.holdings[1].pnl # 0
    /\ broker.response.holdings[1].pnlPercent = 0
    /\ broker.response.holdings[1].changePercent = 0

\* C14 witness of the resolver: a success Quote with previous close 0.
C14_ResolverWitness ==
    \E t \in Threads :
        /\ Returned(t) /\ call[t].result.status \in {"success", "limited_data"}
        /\ call[t].result.previous_close = 0
        /\ call[t].result.current_price > 0

\* C15: the holdings, watchlist and portfolio endpoints answer 400 when the
\* brokerage is not configured and 500 whenever a broker call of the request
\* failed, so no success response follows a failed broker call.
C15_BrokerFailureIs500 ==
    (Served("holdings") \/ Served("watchlist") \/ Served("portfolio")) =>
        /\ ~kite => broker.response.status = 400
        /\ (kite /\ broker.failed # {}) => broker.response.status = 500

\* C16 as stated: get_index_data_from_zerodha returns None whenever one of
\* its broker calls (recent history, quote, one-year history) failed.
C16_NullOnAnyBrokerError ==
    (Served("indexes") /\ kite) =>
        \A i \in DOMAIN broker.calls :
            (\E n \in DOMAIN broker.calls[i] : broker.calls[i][n].kind = "raise")
                => broker.price_data[i].kind = "None"

\* C16: get_index_data_from_zerodha returns None when it has no non-zero
\* current price: the recent history is empty, or it failed and the quote
\* failed too or has no non-zero last price.  A failed recent history alone
\* is answered from the quote, and a failed one-year history leaves the
\* record complete but for an empty chartData.
C16_NullWithoutPrice ==
    (Served("indexes") /\ kite) =>
        \A i \in DOMAIN broker.calls :
            LET c == broker.calls[i]
                d == broker.price_data[i]
                quoted == c.quote.kind = "data" /\ c.quote.data.last_price # Absent
                            /\ c.quote.data.last_price[2] # 0
            IN  /\ (c.recent.kind = "raise" /\ c.quote.kind = "raise") => d.kind = "None"
                /\ (c.recent.kind = "raise" /\ ~quoted) => d.kind = "None"
                /\ c.recent = Historical(<<>>) => d.kind = "None"
                /\ (c.recent.kind = "raise" /\ quoted) =>
                    /\ d.kind = "record"
                    /\ d.price = RoundHalfEven(c.quote.data.last_price[2], 10)
                /\ c.year.kind = "raise" => d.kind = "record" /\ d.chartData = <<>>
                /\ d.kind = "None" => c.year = NotCalled
                /\ d.kind \in {"None", "record"}

\* C16 witness: the recent history and the one-year history failed, the
\* quote succeeded, and a record is returned.
C16_Witness ==
    /\ Served("indexes") /\ kite
    /\ broker.calls[1].recent.kind = "raise"
    /\ broker.calls[1].quote.kind = "data"
    /\ broker.calls[1].year.kind = "raise"
    /\ broker.price_data[1].kind = "record"
    /\ broker.price_data[1].price = 11500

\* C17: /api/indexes answers 400 without records when the brokerage is not
\* configured; otherwise the records of SENSEX and NIFTY50 carry the numbers
\* computed from the broker's prices, or zeros, and never the mock numbers.
C17_NoMockIndexPrices ==
    Served("indexes") =>
        IF ~kite
        THEN broker.response = NotConfigured /\ broker.response.status = 400
        ELSE /\ broker.response.status = 200
             /\ Len(broker.response.indexes) = 2
             /\ \A i \in 1..2 :
                LET r == broker.response.indexes[i]
                    p == IndexPrices(broker.calls[i].recent, broker.calls[i].quote)
                IN  /\ r.symbol = indexes[i]
                    /\ r.price # mock_price(indexes[i]) * 100
                    /\ \/ r.price = 0 /\ r.change = 0 /\ r.changePercent = 0
                       \/ /\ p.ok /\ p.current_price > 0
                          /\ r.price = RoundHalfEven(p.current_price, 10)
                          /\ r.change = RoundHalfEven(p.current_price - p.prev_close, 10)
                          /\ r.changePercent = change_percent(p.current_price, p.prev_close)

\* C17 witness: both price calls of SENSEX failed and its record is all
\* zeros, while NIFTY50 carries the broker's price.
C17_Witness ==
    /\ Served("indexes") /\ kite
    /\ broker.calls[1].recent.kind = "raise"
    /\ broker.calls[1].quote.kind = "raise"
    /\ broker.response.indexes[1].price = 0
    /\ broker.response.indexes[1].changePercent = 0
    /\ broker.response.indexes[2].price = 10038

\* ---------------------------------------------------------------------
\* Retry policy of the public-provider history and info fetches
\* ---------------------------------------------------------------------

\* The history calls of max_retries full attempts, in the order the loops at
\* main.py:171-173 make them.
RECURSIVE AttemptsOrder(_, _)
AttemptsOrder(interval, n) ==
    IF n = 0 THEN <<>> ELSE Variants(interval) \o AttemptsOrder(interval, n - 1)

MaxHistoryCalls == max_retries * Len(Variants("1h"))

\* The call is past the cache check and the initial sleep of a miss.
Missed(t) == call[t].pc \in {"hist", "info", "fallback", "process", "done"} /\ ~call[t].hit

\* The history loops of the call have ended.
HistoryEnded(t) == Missed(t) /\ call[t].pc # "hist"

\* C18: a miss makes at most 3 attempts of at most 3 history calls (9 in
\* all), in the order requested interval, "1h", "1d" within each attempt; a
\* further history call is made only while no call has returned a non-empty
\* series, and the loops end early only on a non-empty series, so a raising
\* or empty variant never cuts the remaining variants short.
C18_HistoryRetryOrder ==
    \A t \in Threads :
        LET c == call[t]
        IN  Missed(t) =>
                /\ Len(c.log) <= MaxHistoryCalls
                /\ MaxHistoryCalls = 9
                /\ c.log = SubSeq(AttemptsOrder(c.req[3], max_retries), 1, Len(c.log))
                /\ c.pc = "hist" => ~NonEmpty(c.history) /\ Len(c.log) < MaxHistoryCalls
                /\ HistoryEnded(t) => NonEmpty(c.history) \/ Len(c.log) = MaxHistoryCalls

\* C18 witness: a call for interval "1h" whose every history call raised has
\* made all 9 calls, in order, and is in its info loop.
C18_Witness ==
    \E t \in Threads :
        /\ call[t].pc = "info"
        /\ call[t].log = <<"1h", "1h", "1d", "1h", "1h", "1d", "1h", "1h", "1d">>
        /\ call[t].history = NoHistory

\* The number of history attempts the call has begun.
AttemptsBegun(t) == (Len(call[t].log) + Len(Variants("1h")) - 1) \div Len(Variants("1h"))

\* C19: between two consecutive attempts of the history fetch the resolver
\* waits: while the history loops run, every attempt begun after the first
\* was preceded by a wait made after the initial sleep.
C19_BackoffBetweenHistoryAttempts ==
    \A t \in Threads :
        (Missed(t) /\ call[t].pc \in {"hist", "process"} /\ AttemptsBegun(t) >= 2)
            => Len(call[t].waits) >= 1 + (AttemptsBegun(t) - 1)

\* The rate-limit waits of the call, in order.
RateLimitWaits(t) == SelectSeq(call[t].waits, LAMBDA w : w.after = "raise429")

\* C20: the rate-limit wait grows exponentially with the attempt number (the
\* waits of three consecutive rate-limited attempts are in a constant ratio
\* greater than 1), and no rate-limit wait follows the final attempt.
C20_ExponentialRateLimitBackoff ==
    \A t \in Threads :
        LET r == RateLimitWaits(t)
        IN  /\ \A i \in 1..Len(r) : r[i].attempt < max_retries - 1
            /\ \A i \in 1..Len(r) : \A j \in 1..Len(r) : \A k \in 1..Len(r) :
                (r[j].attempt = r[i].attempt + 1 /\ r[k].attempt = r[j].attempt + 1)
                    => /\ r[j].ticks * r[j].ticks = r[i].ticks * r[k].ticks
                       /\ r[j].ticks > r[i].ticks


\* ---------------------------------------------------------------------
\* Claims about the tiers of a single call, checked under TierSpec
\* ---------------------------------------------------------------------

\* The price main.py:210 reads from info: the first truthy one of
\* regularMarketPrice and currentPrice, else previousClose; it is positive.
PositivePrice(info) ==
    /\ info.kind = "dict" /\ ~info.empty
    /\ IF Truthy(info.regularMarketPrice) THEN info.regularMarketPrice[2] > 0
       ELSE IF Truthy(info.currentPrice) THEN info.currentPrice[2] > 0
       ELSE info.previousClose[1] = "num" /\ info.previousClose[2] > 0

\* The info loop: at most 3 accesses, and none after one that yields data.
InfoLoopBounded(t) ==
    /\ call[t].infoCalls <= 3
    /\ call[t].pc = "info" => call[t].info.empty /\ call[t].infoCalls < 3
    /\ (call[t].pc = "fallback" /\ call[t].info.empty) => call[t].infoCalls = 3

\* The Quote of the mock tier for the symbol of the call, in hundredths.
IsMockTier(t) ==
    LET r == call[t].result
        price == CASE call[t].req[1] \in {"SENSEX", "sensex"} -> 7500000
                   [] call[t].req[1] = "NIFTY50" -> 2400000
                   [] OTHER -> 5000000
    IN  /\ r.status = "mock_data"
        /\ r.current_price = price
        /\ r.previous_close * 100 = price * 99
        /\ r.chart_data = <<>>

\* The result of the call is the cache entry of its key.
ResultCached(t) ==
    /\ Key(t) \in DOMAIN index_data_cache
    /\ index_data_cache[Key(t)] = <<call[t].result, call[t].stored>>

C21_LimitedWitness ==
    \E t \in Threads :
        /\ Returned(t) /\ call[t].infoCalls = 2
        /\ call[t].result.status = "limited_data" /\ ResultCached(t)


\* The call returned the success Quote it built from its series.
BuiltSuccess(t) ==
    Returned(t) /\ ~call[t].hit /\ call[t].result.status = "success"

\* C22: the success Quote of a series of n closes has the last close as
\* current price, the first close as previous close (the current price when
\* n = 1), and as chart the last min(n, 50) samples in series order, with
\* data_points = min(n, 50); the prices are rounded to two decimals.
C22_SuccessQuoteOfSeries ==
    \A t \in Threads :
        BuiltSuccess(t) =>
            LET rows == call[t].history.rows
                n == Len(rows)
                m == IF n < 50 THEN n ELSE 50
                r == call[t].result
            IN  /\ n > 0
                /\ r.current_price = RoundHalfEven(rows[n].Close, 10)
                /\ r.previous_close =
                        IF n > 1 THEN RoundHalfEven(rows[1].Close, 10) ELSE r.current_price
                /\ r.data_points = m
                /\ Len(r.chart_data) = m
                /\ \A i \in 1..m :
                    /\ r.chart_data[i].value = RoundHalfEven(rows[n - m + i].Close, 10)
                    /\ r.chart_data[i].time.ts = rows[n - m + i].ts

\* C22 witness: a series of 52 closes gave a chart of its last 50 samples,
\* and the previous close is the first close, which the chart does not hold.
C22_Witness ==
    \E t \in Threads :
        /\ BuiltSuccess(t)
        /\ Len(call[t].history.rows) = 52
        /\ call[t].result.data_points = 50
        /\ call[t].result.chart_data[1].time.ts = 3
        /\ call[t].result.previous_close = 10012
        /\ call[t].result.chart_data[1].value = 10038


\* The intraday intervals of the history provider (at most one hour).
IntradayIntervals == {"1m", "2m", "5m", "15m", "30m", "60m", "90m", "1h"}

\* The interval variant whose history call returned the series of the call.
SeriesInterval(t) == call[t].log[Len(call[t].log)]

\* C23: the chart points of a success Quote are labelled by time of day
\* ("%H:%M") exactly when the interval variant that produced the series is
\* intraday, and by date ("%m/%d") otherwise.
C23_LabelsFollowSeriesInterval ==
    \A t \in Threads :
        BuiltSuccess(t) =>
            \A i \in DOMAIN call[t].result.chart_data :
                call[t].result.chart_data[i].time.fmt =
                    IF SeriesInterval(t) \in IntradayIntervals THEN "%H:%M" ELSE "%m/%d"


\* ---------------------------------------------------------------------
\* Claims about concurrent calls, checked under ConcSpec
\* ---------------------------------------------------------------------

\* The fields of a stored Quote
QuoteFields ==
    {"symbol", "current_price", "previous_close", "change", "change_percent",
     "chart_data", "status"}

\* Thread t stores its result in this step.
Writes(t) ==
    /\ call[t].pc \in {"fallback", "process"}
    /\ call'[t].pc = "done"
    /\ call'[t].stored # -1

\* C24: cache writes of concurrent calls for one key are last-writer-wins.
\* A step that stores sets the entry of its key to the complete pair
\* (payload, timestamp) of the storing call and leaves every other entry as it
\* was; an entry changes only by such a step of a single call, so after all
\* calls the entry is the pair of the last write; and no key ever leaves the
\* cache.
C24_LastWriterWins ==
    [][ /\ DOMAIN index_data_cache \subseteq DOMAIN index_data_cache'
        /\ \A t \in ConcThreads :
            Writes(t) =>
                /\ index_data_cache'[cache_key(call[t].req)]
                        = <<call'[t].result, now>>
                /\ call'[t].stored = now
                /\ QuoteFields \subseteq DOMAIN call'[t].result
                /\ call'[t].result.status \in {"success", "limited_data", "mock_data"}
                /\ \A k \in DOMAIN index_data_cache :
                    k # cache_key(call[t].req) => index_data_cache'[k] = index_data_cache[k]
        /\ \A k \in DOMAIN index_data_cache' :
            (k \notin DOMAIN index_data_cache \/ index_data_cache'[k] # index_data_cache[k])
                => \E t \in ConcThreads : Writes(t) /\ cache_key(call[t].req) = k
      ]_vars

\* C24 witness: both threads missed and stored different Quotes for the same
\* key, and the entry is the pair of thread 2, which overwrote that of thread 1.
C24_Witness ==
    /\ call[1].pc = "done" /\ call[2].pc = "done"
    /\ call[1].req = call[2].req
    /\ ~call[1].hit /\ ~call[2].hit
    /\ call[1].stored # -1 /\ call[2].stored # -1
    /\ call[1].result # call[2].result
    /\ call[1].stored < call[2].stored
    /\ index_data_cache[cache_key(call[2].req)] = <<call[2].result, call[2].stored>>


\* ---------------------------------------------------------------------
\* Claims about the cache key, checked under KeySpec
\* ---------------------------------------------------------------------

\* The cached Quote was built for the symbol of the call of thread t.  Every
\* stored Quote carries the symbol of the triple it was built for.
OwnSymbol(t, entry) == entry[1].symbol = upper(call[t].req[1])

\* C25: the cache key identifies the request triple.  A call never reads a
\* cache entry that a call for a different triple wrote (the Quote of a cache
\* hit is one built for the symbol of the call), and never overwrites one (an
\* entry that the call found under its key and replaced was built for the
\* symbol of the call).
C25_KeyIdentifiesTriple ==
    \A t \in Threads :
        /\ (Returned(t) /\ call[t].hit) => OwnSymbol(t, <<call[t].result>>)
        /\ (Returned(t) /\ ~call[t].hit /\ call[t].stored # -1 /\ HadEntry(t))
                => OwnSymbol(t, Entry0(t))

====
